---- MODULE Spec2Model ----
(***************************************************************************)
(* A model of scripts/fetch_nba_stats.py: one run of main(), which fetches *)
(* the league game log, derives the recent-activity count per player,      *)
(* fetches the season averages, merges the two and overwrites              *)
(* nba_stats.json.                                                         *)
(*                                                                         *)
(* Encodings.                                                              *)
(*  - A GAME_DATE 'YYYY-MM-DD' is the sequence of its eight digits (the    *)
(*    two hyphens sit at fixed positions and never decide a comparison).   *)
(*    Python compares the strings lexicographically; LexLess does so here. *)
(*  - A dict is kept with its insertion order: a sequence of               *)
(*    [key, value] entries for the result of fetch_player_stats (json.dump *)
(*    writes it in that order), a function for the counter dict.           *)
(*  - MIN is in hundredths of a minute, avgMinutes in tenths; the Python   *)
(*    value None of a MIN field is NoneMIN.                                *)
(*  - The file on disk is the sequence of pieces json.dump has written.    *)
(***************************************************************************)
EXTENDS Integers, Sequences, FiniteSets, TLC

VARIABLES
    pc,                      \* position of the run inside main()
    games,                   \* data['LeagueGameLog'] of the game-log response
    players,                 \* data['LeagueDashPlayerStats'] of the season response
    recent_dates,            \* fetch_recent_games_played: recent_dates
    recent_games_by_player,  \* fetch_recent_games_played: the counter dict
    recent_games,            \* main: recent_games
    stats,                   \* main: stats (the result of fetch_player_stats)
    file,                    \* nba_stats.json on disk
    out,                     \* the lines printed so far
    events,                  \* the steps taken so far, in order
    exc,                     \* the exception raised inside the try block
    raised,                  \* the exception that left main()
    caught,                  \* how many times the except clause was entered
    first_run,               \* outcome of an earlier run of the aggregator
    written                  \* pieces json.dump has written so far

vars == <<pc, games, players, recent_dates, recent_games_by_player, recent_games,
          stats, file, out, events, exc, raised, caught, first_run, written>>

-----------------------------------------------------------------------------
(* Program constant and the bounds of the model *)

RECENT_GAMES_WINDOW == 10

MaxTail == 1     \* free game-log entries after the regular block
MaxRows == 2     \* rows of the season-averages response

NoneMIN == 0 - 1

-----------------------------------------------------------------------------
(* Generic helpers *)

Min2(a, b) == IF a <= b THEN a ELSE b

ToSet(s) == {s[i] : i \in 1..Len(s)}

Take(s, n) == SubSeq(s, 1, Min2(n, Len(s)))

IsPrefix(s, t) == Len(s) <= Len(t) /\ SubSeq(t, 1, Len(s)) = s

SeqsUpTo(S, n) == UNION {[1..k -> S] : k \in 0..n}

EmptyMap == <<>>

\* Python string comparison a < b on equal-alphabet sequences of digits.
LexLess(a, b) ==
    \/ \E i \in 1..Min2(Len(a), Len(b)) :
          /\ \A j \in 1..(i - 1) : a[j] = b[j]
          /\ a[i] < b[i]
    \/ /\ Len(a) < Len(b)
       /\ \A j \in 1..Len(a) : a[j] = b[j]

LexMax(S) == CHOOSE x \in S : \A y \in S : y = x \/ LexLess(y, x)

LexMin(S) == CHOOSE x \in S : \A y \in S : y = x \/ LexLess(x, y)

-----------------------------------------------------------------------------
(* The provider's responses *)

\* The k-th game day counted from 2024-12-25, as the digits of 'YYYY-MM-DD'.
DateStr(k) ==
    LET n == 24 + k IN
    IF n <= 31
    THEN <<2, 0, 2, 4, 1, 2, n \div 10, n % 10>>
    ELSE <<2, 0, 2, 5, 0, 1, (n - 31) \div 10, (n - 31) % 10>>

GameLogEntry(name, date) == [PLAYER_NAME |-> name, GAME_DATE |-> date]

\* Player "A" appears on each of the first b game days.
RegularBlock(b) == [i \in 1..b |-> GameLogEntry("A", DateStr(i))]

BlockSizes ==
    {0, 1, 2, RECENT_GAMES_WINDOW - 1, RECENT_GAMES_WINDOW,
     RECENT_GAMES_WINDOW + 1, RECENT_GAMES_WINDOW + 2}

TailEntries ==
    {GameLogEntry(n, DateStr(k)) : n \in {"A", "B"}, k \in {2, RECENT_GAMES_WINDOW + 3}}

\* The game logs the provider may return: a regular block followed by up to
\* MaxTail further entries (a repeated player and date, a second player, a
\* date older than the window, a date newer than every other).
GameLogs ==
    {RegularBlock(b) \o t : b \in BlockSizes, t \in SeqsUpTo(TailEntries, MaxTail)}

SeasonRow(name, min, gp, team) ==
    [PLAYER_NAME |-> name, MIN |-> min, GP |-> gp, TEAM_ABBREVIATION |-> team]

SeasonRows ==
    {SeasonRow("A", 3244, 10, "BOS"), SeasonRow("A", 1500, 8, "NYK"),
     SeasonRow("B", 1500, 8, "NYK"), SeasonRow("C", NoneMIN, 0, "LAL")}

\* The season-averages responses the provider may return.
SeasonResponses == SeqsUpTo(SeasonRows, MaxRows)

\* What a provider call may raise instead of returning.
ProviderErrors == {"ConnectionError", "ReadTimeout"}

-----------------------------------------------------------------------------
(* fetch_recent_games_played, lines 41-62 *)

RECURSIVE SortedDesc(_)
\* sorted(S, reverse=True) on date strings
SortedDesc(S) ==
    IF S = {} THEN <<>>
    ELSE LET m == LexMax(S) IN <<m>> \o SortedDesc(S \ {m})

RECURSIVE SortedAsc(_)
SortedAsc(S) ==
    IF S = {} THEN <<>>
    ELSE LET m == LexMin(S) IN <<m>> \o SortedAsc(S \ {m})

GameDates_Ascending(gs) == SortedAsc({gs[i].GAME_DATE : i \in 1..Len(gs)})

\* line 46: game_dates = sorted(set(g['GAME_DATE'] for g in games), reverse=True)
GameDates(gs) == SortedDesc({gs[i].GAME_DATE : i \in 1..Len(gs)})

\* line 49: recent_dates = set(game_dates[:RECENT_GAMES_WINDOW])
RecentDates(gs) == ToSet(Take(GameDates(gs), RECENT_GAMES_WINDOW))

\* defaultdict(int): d[k] += 1
Increment(d, k) ==
    IF k \in DOMAIN d THEN [d EXCEPT ![k] = @ + 1] ELSE d @@ (k :> 1)

\* defaultdict(int): reading d[k] creates the key with value 0
Touch(d, k) == IF k \in DOMAIN d THEN d ELSE d @@ (k :> 0)

RECURSIVE CountFrom(_, _, _, _)
CountFrom(gs, i, rd, d) ==
    IF i > Len(gs) THEN d
    ELSE CountFrom(gs, i + 1, rd,
                   IF gs[i].GAME_DATE \in rd THEN Increment(d, gs[i].PLAYER_NAME) ELSE d)

RECURSIVE CountAllFrom(_, _, _)
CountAllFrom(gs, i, d) ==
    IF i > Len(gs) THEN d
    ELSE CountAllFrom(gs, i + 1, Increment(d, gs[i].PLAYER_NAME))

RECURSIVE CountTouchFrom(_, _, _, _)
CountTouchFrom(gs, i, rd, d) ==
    IF i > Len(gs) THEN d
    ELSE CountTouchFrom(gs, i + 1, rd,
                        IF gs[i].GAME_DATE \in rd
                        THEN Increment(d, gs[i].PLAYER_NAME)
                        ELSE Touch(d, gs[i].PLAYER_NAME))

\* the date test of line 57 left out
CountRecent_AllDates(gs, rd, d) == CountAllFrom(gs, 1, d)

\* the player's counter read before the date test of line 57
CountRecent_TouchAll(gs, rd, d) == CountTouchFrom(gs, 1, rd, d)

\* lines 56-59: the counting loop over games, starting from counter d
CountRecent(gs, rd, d) == CountFrom(gs, 1, rd, d)

\* a counter dict kept across calls instead of created by each call
NewCounter_Stale == recent_games_by_player

\* line 54: recent_games_by_player = defaultdict(int)
NewCounter == EmptyMap

-----------------------------------------------------------------------------
(* fetch_player_stats, lines 85-101 *)

\* round(x, 1) of a value given in hundredths, result in tenths (ties to even)
Round1(h) ==
    LET q == h \div 10
        r == h % 10
    IN  IF r < 5 THEN q
        ELSE IF r > 5 THEN q + 1
        ELSE IF q % 2 = 0 THEN q ELSE q + 1

\* recent_games_played.get(player_name, 0)
DictGet(d, k, default) == IF k \in DOMAIN d THEN d[k] ELSE default

Keys(res) == {res[i].key : i \in 1..Len(res)}

DictPut_Append(res, k, v) == Append(res, [key |-> k, value |-> v])

\* result[k] = v on an insertion-ordered dict
DictPut(res, k, v) ==
    IF k \in Keys(res)
    THEN [i \in 1..Len(res) |-> IF res[i].key = k THEN [key |-> k, value |-> v] ELSE res[i]]
    ELSE Append(res, [key |-> k, value |-> v])

\* lines 93-98: the record built for one row
PlayerSeasonRecord(player, recent) ==
    [avgMinutes |-> Round1(player.MIN),
     gamesPlayed |-> player.GP,
     team |-> player.TEAM_ABBREVIATION,
     recentGamesPlayed |-> DictGet(recent, player.PLAYER_NAME, 0)]

RECURSIVE MergeFrom(_, _, _, _)
\* lines 91-98: the loop over data['LeagueDashPlayerStats']
MergeFrom(ps, i, recent, res) ==
    IF i > Len(ps) THEN res
    ELSE MergeFrom(ps, i + 1, recent,
                   DictPut(res, ps[i].PLAYER_NAME, PlayerSeasonRecord(ps[i], recent)))

\* round(None, 1) raises TypeError
MergeRaises(ps) == \E i \in 1..Len(ps) : ps[i].MIN = NoneMIN

-----------------------------------------------------------------------------
(* json.dump(stats, f, indent=2), line 119 *)

Piece(tok, k, v) == [tok |-> tok, key |-> k, value |-> v]

NoRecord == [avgMinutes |-> 0, gamesPlayed |-> 0, team |-> "", recentGamesPlayed |-> 0]

\* The pieces json.dump writes, in order: an empty dict is the one piece '{}'.
Serialize(res) ==
    IF Len(res) = 0 THEN <<Piece("{}", "", NoRecord)>>
    ELSE <<Piece("{", "", NoRecord)>>
         \o [i \in 1..Len(res) |-> Piece("item", res[i].key, res[i].value)]
         \o <<Piece("}", "", NoRecord)>>

\* nba_stats.json as an earlier run left it
PrevFile ==
    Serialize(<<[key |-> "A",
                 value |-> [avgMinutes |-> 301, gamesPlayed |-> 5, team |-> "BOS",
                            recentGamesPlayed |-> 4]]>>)

-----------------------------------------------------------------------------
(* main(), lines 104-127 *)

NoOutcome == [exc |-> "None", result |-> EmptyMap]

Init ==
    /\ pc = "start"
    /\ games = <<>>
    /\ players = <<>>
    /\ recent_dates = {}
    /\ recent_games_by_player = EmptyMap
    /\ recent_games = EmptyMap
    /\ stats = <<>>
    /\ file = PrevFile
    /\ out = <<>>
    /\ events = <<>>
    /\ exc = "None"
    /\ raised = "None"
    /\ caught = 0
    /\ first_run = NoOutcome
    /\ written = 0

\* An exception e raised inside the try block at this step.
Raise(e) ==
    /\ exc' = e
    /\ pc' = "except"

\* lines 30-37: the game-log provider call returns
CallGameLogOk ==
    /\ pc = "start"
    /\ \E gs \in GameLogs : games' = gs
    /\ out' = Append(out, "fetching_logs")
    /\ events' = Append(events, "game_log_call")
    /\ pc' = "gl_called"
    /\ UNCHANGED <<players, recent_dates, recent_games_by_player, recent_games, stats,
                   file, exc, raised, caught, first_run, written>>

\* lines 30-37: the game-log provider call raises
CallGameLogFail ==
    /\ pc = "start"
    /\ out' = Append(out, "fetching_logs")
    /\ events' = Append(events, "game_log_call")
    /\ \E e \in ProviderErrors : Raise(e)
    /\ UNCHANGED <<games, players, recent_dates, recent_games_by_player, recent_games,
                   stats, file, raised, caught, first_run, written>>

Sleep1_NoDelay ==
    /\ pc = "gl_called"
    /\ pc' = "gl_slept"
    /\ UNCHANGED <<games, players, recent_dates, recent_games_by_player, recent_games,
                   stats, file, out, events, exc, raised, caught, first_run, written>>

\* line 39: time.sleep(1)
Sleep1 ==
    /\ pc = "gl_called"
    /\ events' = Append(events, "sleep")
    /\ pc' = "gl_slept"
    /\ UNCHANGED <<games, players, recent_dates, recent_games_by_player, recent_games,
                   stats, file, out, exc, raised, caught, first_run, written>>

\* lines 41-62 with at least one game date, and the return to main (line 108)
AggregateOk ==
    /\ pc = "gl_slept"
    /\ RecentDates(games) # {}
    /\ recent_dates' = RecentDates(games)
    /\ recent_games_by_player' = CountRecent(games, RecentDates(games), NewCounter)
    /\ recent_games' = recent_games_by_player'
    /\ out' = out \o <<"looking_at", "found_recent">>
    /\ events' = Append(events, "aggregate")
    /\ pc' = "aggregated"
    /\ UNCHANGED <<games, players, stats, file, exc, raised, caught, first_run, written>>

\* lines 41-51 on a log without game dates: min(recent_dates) of line 51
\* raises ValueError on the empty set
AggregateEmpty ==
    /\ pc = "gl_slept"
    /\ RecentDates(games) = {}
    /\ recent_dates' = RecentDates(games)
    /\ events' = Append(events, "aggregate")
    /\ Raise("ValueError")
    /\ UNCHANGED <<games, players, recent_games_by_player, recent_games, stats, file,
                   out, raised, caught, first_run, written>>

\* lines 72-79: the season-averages provider call returns
CallStatsOk ==
    /\ pc = "aggregated"
    /\ \E ps \in SeasonResponses : players' = ps
    /\ out' = Append(out, "fetching_stats")
    /\ events' = Append(events, "stats_call")
    /\ pc' = "st_called"
    /\ UNCHANGED <<games, recent_dates, recent_games_by_player, recent_games, stats,
                   file, exc, raised, caught, first_run, written>>

\* lines 72-79: the season-averages provider call raises
CallStatsFail ==
    /\ pc = "aggregated"
    /\ out' = Append(out, "fetching_stats")
    /\ events' = Append(events, "stats_call")
    /\ \E e \in ProviderErrors : Raise(e)
    /\ UNCHANGED <<games, players, recent_dates, recent_games_by_player, recent_games,
                   stats, file, raised, caught, first_run, written>>

\* line 82: time.sleep(1)
Sleep2 ==
    /\ pc = "st_called"
    /\ events' = Append(events, "sleep")
    /\ pc' = "st_slept"
    /\ UNCHANGED <<games, players, recent_dates, recent_games_by_player, recent_games,
                   stats, file, out, exc, raised, caught, first_run, written>>

\* lines 85-101: the merge loop, the player-count line, the return to main
MergeOk ==
    /\ pc = "st_slept"
    /\ ~MergeRaises(players)
    /\ stats' = MergeFrom(players, 1, recent_games, <<>>)
    /\ out' = Append(out, "found_players")
    /\ events' = events \o <<"merge", "report">>
    /\ pc' = "merged"
    /\ UNCHANGED <<games, players, recent_dates, recent_games_by_player, recent_games,
                   file, exc, raised, caught, first_run, written>>

\* lines 85-98: a row whose MIN is None makes round() raise TypeError
MergeFail ==
    /\ pc = "st_slept"
    /\ MergeRaises(players)
    /\ events' = Append(events, "merge")
    /\ Raise("TypeError")
    /\ UNCHANGED <<games, players, recent_dates, recent_games_by_player, recent_games,
                   stats, file, out, raised, caught, first_run, written>>

OpenFile_Append ==
    /\ pc = "merged"
    /\ events' = Append(events, "write")
    /\ pc' = "writing"
    /\ UNCHANGED <<games, players, recent_dates, recent_games_by_player, recent_games,
                   stats, file, out, exc, raised, caught, first_run, written>>

\* line 118: open(output_path, 'w') truncates the file
OpenFile ==
    /\ pc = "merged"
    /\ file' = <<>>
    /\ events' = Append(events, "write")
    /\ pc' = "writing"
    /\ UNCHANGED <<games, players, recent_dates, recent_games_by_player, recent_games,
                   stats, out, exc, raised, caught, first_run, written>>

\* line 118: open() raises OSError and leaves the file alone
OpenFileFail ==
    /\ pc = "merged"
    /\ events' = Append(events, "write")
    /\ Raise("OSError")
    /\ UNCHANGED <<games, players, recent_dates, recent_games_by_player, recent_games,
                   stats, file, out, raised, caught, first_run, written>>

\* line 119: json.dump writes its next piece
WriteChunk ==
    /\ pc = "writing"
    /\ written < Len(Serialize(stats))
    /\ file' = Append(file, Serialize(stats)[written + 1])
    /\ written' = written + 1
    /\ UNCHANGED <<pc, games, players, recent_dates, recent_games_by_player,
                   recent_games, stats, out, events, exc, raised, caught, first_run>>

\* lines 118-119: a write, the flush or the close raises OSError
WriteFail ==
    /\ pc = "writing"
    /\ Raise("OSError")
    /\ UNCHANGED <<games, players, recent_dates, recent_games_by_player, recent_games,
                   stats, file, out, events, raised, caught, first_run, written>>

\* line 119: the with block ends after the last piece
CloseFile ==
    /\ pc = "writing"
    /\ written = Len(Serialize(stats))
    /\ pc' = "saved"
    /\ UNCHANGED <<games, players, recent_dates, recent_games_by_player, recent_games,
                   stats, file, out, events, exc, raised, caught, first_run, written>>

\* lines 121-122: the success lines; main returns
PrintSuccess ==
    /\ pc = "saved"
    /\ out' = out \o <<"saved", "next_step">>
    /\ pc' = "done"
    /\ UNCHANGED <<games, players, recent_dates, recent_games_by_player, recent_games,
                   stats, file, events, exc, raised, caught, first_run, written>>

Handler_Swallow ==
    /\ pc = "except"
    /\ caught' = caught + 1
    /\ out' = out \o <<"error", "hint">>
    /\ pc' = "done"
    /\ UNCHANGED <<games, players, recent_dates, recent_games_by_player, recent_games,
                   stats, file, events, exc, raised, first_run, written>>

Handler_PartialFile ==
    /\ pc = "except"
    /\ caught' = caught + 1
    /\ out' = out \o <<"error", "hint">>
    /\ file' = Serialize(stats)
    /\ raised' = exc
    /\ pc' = "failed"
    /\ UNCHANGED <<games, players, recent_dates, recent_games_by_player, recent_games,
                   stats, events, exc, first_run, written>>

\* lines 124-127: except Exception as e: two lines printed, then raise
Handler ==
    /\ pc = "except"
    /\ caught' = caught + 1
    /\ out' = out \o <<"error", "hint">>
    /\ raised' = exc
    /\ pc' = "failed"
    /\ UNCHANGED <<games, players, recent_dates, recent_games_by_player, recent_games,
                   stats, file, events, exc, first_run, written>>

Next ==
    \/ CallGameLogOk
    \/ CallGameLogFail
    \/ Sleep1
    \/ AggregateOk
    \/ AggregateEmpty
    \/ CallStatsOk
    \/ CallStatsFail
    \/ Sleep2
    \/ MergeOk
    \/ MergeFail
    \/ OpenFile
    \/ OpenFileFail
    \/ WriteChunk
    \/ WriteFail
    \/ CloseFile
    \/ PrintSuccess
    \/ Handler

Spec == Init /\ [][Next]_vars

-----------------------------------------------------------------------------
(* The aggregator called twice on one game-log list (lines 41-62 each time) *)

InitAgg ==
    /\ pc = "agg0"
    /\ games \in GameLogs
    /\ players = <<>>
    /\ recent_dates = {}
    /\ recent_games_by_player = EmptyMap
    /\ recent_games = EmptyMap
    /\ stats = <<>>
    /\ file = PrevFile
    /\ out = <<>>
    /\ events = <<>>
    /\ exc = "None"
    /\ raised = "None"
    /\ caught = 0
    /\ first_run = NoOutcome
    /\ written = 0

\* One call of lines 41-62 on games: the ValueError of line 51 or the map.
AggregatorCall(from, to) ==
    /\ pc = from
    /\ pc' = to
    /\ recent_dates' = RecentDates(games)
    /\ IF RecentDates(games) = {}
       THEN /\ exc' = "ValueError"
            /\ recent_games' = EmptyMap
            /\ UNCHANGED recent_games_by_player
       ELSE /\ exc' = "None"
            /\ recent_games_by_player' = CountRecent(games, RecentDates(games), NewCounter)
            /\ recent_games' = recent_games_by_player'
    /\ UNCHANGED <<games, players, stats, file, out, events, raised, caught, written>>

FirstCall ==
    /\ AggregatorCall("agg0", "agg1")
    /\ first_run' = [exc |-> exc', result |-> recent_games']

SecondCall ==
    /\ AggregatorCall("agg1", "agg2")
    /\ UNCHANGED first_run

NextAgg ==
    \/ FirstCall
    \/ SecondCall

AggSpec == InitAgg /\ [][NextAgg]_vars

-----------------------------------------------------------------------------
(* Vocabulary of the properties *)

\* The calendar position of a date string: later dates have larger positions.
Ordinal(s) ==
    LET year == 1000 * s[1] + 100 * s[2] + 10 * s[3] + s[4]
        month == 10 * s[5] + s[6]
        day == 10 * s[7] + s[8]
    IN  (year * 12 + (month - 1)) * 31 + day

LogDates == {games[i].GAME_DATE : i \in 1..Len(games)}

\* The log dates inside the recent window: those with fewer than N distinct
\* log dates after them in the calendar.
Window ==
    LET ds == LogDates
        ord == [d \in ds |-> Ordinal(d)]
    IN  {d \in ds : Cardinality({e \in ds : ord[e] > ord[d]}) < RECENT_GAMES_WINDOW}

InWindow(d) == d \in Window

EntriesOf(name) == {i \in 1..Len(games) : games[i].PLAYER_NAME = name}

\* The entries of a player dated in the set w of dates.
EntriesIn(name, w) == {i \in EntriesOf(name) : games[i].GAME_DATE \in w}

RecentEntriesOf(name) == EntriesIn(name, Window)

LogNames == {games[i].PLAYER_NAME : i \in 1..Len(games)}

RowNames == {players[i].PLAYER_NAME : i \in 1..Len(players)}

Printed(line) == line \in ToSet(out)

Happened(step) == step \in ToSet(events)

\* fetch_recent_games_played returned its map (line 61 was printed)
AggregatorReturned == Printed("found_recent")

\* fetch_player_stats returned its mapping (line 100 was printed)
Merged == Printed("found_players")

\* The step during which the exception of this run was raised.
FailedStep == events[Len(events)]

StepOrder ==
    <<"game_log_call", "sleep", "aggregate", "stats_call", "sleep", "merge",
      "report", "write">>

-----------------------------------------------------------------------------
(* Properties *)

\* C1: every player of the season-averages response is in the output, with
\* recentGamesPlayed equal to the number of game-log entries of that name
\* dated inside the recent window (repeated entries counted each), and 0
\* when the player has no game-log entry.
C1_RecentGamesPlayed ==
    Merged =>
        LET w == Window IN
        /\ RowNames \subseteq Keys(stats)
        /\ \A i \in 1..Len(stats) :
              /\ stats[i].value.recentGamesPlayed
                    = Cardinality(EntriesIn(stats[i].key, w))
              /\ EntriesOf(stats[i].key) = {} => stats[i].value.recentGamesPlayed = 0

\* C1 witness: a merged output where one player has two entries of the same
\* date inside the window, both counted, and another has no entry at all.
C1_Witness ==
    /\ Merged
    /\ \E i \in 1..Len(stats) :
          /\ \E a, b \in RecentEntriesOf(stats[i].key) : a # b /\ games[a] = games[b]
          /\ stats[i].value.recentGamesPlayed >= 2
    /\ \E i \in 1..Len(stats) :
          /\ EntriesOf(stats[i].key) = {}
          /\ stats[i].value.recentGamesPlayed = 0

\* C2 as stated: the output has as many keys as the season-averages response
\* has rows, each key once, none of them a game-log-only player.
C2_KeysEqualRows ==
    Merged =>
        /\ Len(stats) = Len(players)
        /\ Cardinality(Keys(stats)) = Len(stats)
        /\ Keys(stats) \subseteq RowNames

\* C2 amended: the keys of the output are exactly the distinct PLAYER_NAME
\* values of the rows of the season-averages response, each key once; no
\* name is dropped and no game-log-only player is added.
C2_KeysEqualDistinctNames ==
    Merged =>
        /\ Keys(stats) = RowNames
        /\ Len(stats) = Cardinality(RowNames)

\* C2 witness: rows merged while the game log names a player who is in no
\* row and a row names a player who is not in the game log.
C2_Witness ==
    /\ Merged
    /\ Len(stats) >= 1
    /\ LogNames \ RowNames # {}
    /\ RowNames \ LogNames # {}

\* C3 as stated: on a game log with fewer than N distinct dates (none
\* included) the aggregator does not raise and the window is all log dates.
C3_FewDatesNoRaise ==
    (Happened("aggregate") /\ Cardinality(LogDates) < RECENT_GAMES_WINDOW) =>
        /\ exc # "ValueError"
        /\ recent_dates = LogDates

\* C4 as stated: the file always holds its complete previous content or the
\* complete new mapping.
C4_AtomicOverwrite ==
    \/ file = PrevFile
    \/ file = Serialize(stats)

\* C4 amended: the file is overwritten in place, not atomically: it always
\* holds its complete previous content or a (possibly empty) prefix of the new
\* serialization, and the complete new mapping once the write has succeeded.
C4_PlainOverwrite ==
    /\ file = PrevFile \/ IsPrefix(file, Serialize(stats))
    /\ pc \in {"saved", "done"} => file = Serialize(stats)

\* C4 witness: a run failed during the write and left a truncated, non-empty file.
C4_Witness ==
    /\ pc = "failed"
    /\ FailedStep = "write"
    /\ Len(file) >= 1
    /\ file # PrevFile
    /\ file # Serialize(stats)

\* C5: an exception raised in any stage is caught once, the error line and
\* then the hint are printed, and the same exception leaves main; a run with
\* a failed stage neither prints the success line nor ends normally.
C5_CaughtOnceAndReraised ==
    /\ caught <= 1
    /\ exc # "None" => pc \in {"except", "failed"} /\ ~Printed("saved")
    /\ pc = "except" => caught = 0 /\ raised = "None" /\ ~Printed("error")
    /\ pc = "failed" =>
          /\ exc # "None"
          /\ caught = 1
          /\ raised = exc
          /\ Len(out) >= 2
          /\ SubSeq(out, Len(out) - 1, Len(out)) = <<"error", "hint">>
    /\ pc = "done" => exc = "None" /\ caught = 0 /\ raised = "None"

\* C5 witness: the merge raised and the run ended with that exception re-raised.
C5_Witness ==
    /\ pc = "failed"
    /\ FailedStep = "merge"
    /\ raised = "TypeError"

C7_FixedOrder ==
    /\ IsPrefix(events, StepOrder)
    /\ pc = "done" => events = StepOrder
    /\ \A call \in {"game_log_call", "stats_call"} :
          Cardinality({i \in 1..Len(events) : events[i] = call}) <= 1
    /\ \A i, j \in 1..Len(events) :
          (events[i] = "game_log_call" /\ events[j] = "stats_call") =>
              \E k \in (i + 1)..(j - 1) : events[k] = "sleep"

\* C7 witness: a run that went through every step and ended normally.
C7_Witness ==
    /\ pc = "done"
    /\ Len(events) = Len(StepOrder)

\* C8: the window has min(N, d) dates, all of them log dates, and each is
\* later in the calendar than every log date outside the window.
C8_Window ==
    Happened("aggregate") =>
        /\ Cardinality(recent_dates) = Min2(RECENT_GAMES_WINDOW, Cardinality(LogDates))
        /\ recent_dates \subseteq LogDates
        /\ \A w \in recent_dates : \A o \in LogDates \ recent_dates :
              Ordinal(w) > Ordinal(o)

\* C8 witness: a log with more than N distinct dates spanning the change of
\* year, so that the window leaves log dates out.
C8_Witness ==
    /\ Happened("aggregate")
    /\ Cardinality(LogDates) > RECENT_GAMES_WINDOW
    /\ LogDates \ recent_dates # {}
    /\ \E w \in recent_dates : w[4] = 5
    /\ \E w \in recent_dates : w[4] = 4

\* C9: every count in the returned map is at least 1 and its keys are exactly
\* the names with an entry dated inside the window.
C9_NoZeroCounts ==
    AggregatorReturned =>
        LET w == Window IN
        /\ \A n \in DOMAIN recent_games : recent_games[n] >= 1
        /\ DOMAIN recent_games = {n \in LogNames : EntriesIn(n, w) # {}}

\* C9 witness: the map was returned for a log in which some player has
\* entries, all of them outside the window.
C9_Witness ==
    /\ AggregatorReturned
    /\ \E n \in LogNames : RecentEntriesOf(n) = {} /\ n \notin DOMAIN recent_games

\* C10: when a stage before the write fails, the file is not opened and
\* still holds the content it had before the run.
C10_NoFileOnEarlyFailure ==
    (exc # "None" /\ FailedStep \in {"game_log_call", "aggregate", "stats_call", "merge"}) =>
        /\ ~Happened("write")
        /\ file = PrevFile

\* C10 witness: the merge failed after the aggregator had returned counts,
\* and the run is over.
C10_Witness ==
    /\ pc = "failed"
    /\ FailedStep = "merge"
    /\ DOMAIN recent_games # {}
    /\ file = PrevFile

====
